---------------------------- MODULE Spec2Model ----------------------------
(***************************************************************************)
(* State-machine model of motion_detection::Evaluator                      *)
(* (lidar_motion_detection/src/evaluation/evaluator.cpp).                  *)
(*                                                                         *)
(* A text file is modelled as the sequence of its lines, a line as the     *)
(* sequence of the strings streamed into it; the string "," is the         *)
(* separator the code writes, so the comma-separated fields of a line are  *)
(* recovered by splitting at it.  Numbers are streamed as their decimal    *)
(* text.  Floats are modelled as exact fractions <<num, den>> in lowest    *)
(* terms and streamed as "num/den".  Distances are small naturals (only    *)
(* their order matters to the code).  A directory path is the sequence of  *)
(* its components.                                                         *)
(***************************************************************************)
EXTENDS Naturals, Sequences, FiniteSets, TLC

VARIABLES
    clock,               \* wall clock read by std::time, in ticks
    fs,                  \* file system: existing directory -> its three files
    constructions,       \* number of Evaluator objects constructed so far
    config_,             \* Evaluator::config_
    output_directory_,   \* Evaluator::output_directory_
    evaluated_levels_,   \* Evaluator::evaluated_levels_
    ranges_,             \* Evaluator::ranges_
    gt_frame_counter_,   \* Evaluator::gt_frame_counter_
    cloud_info,          \* the caller's CloudInfo handed to evaluateFrame
    pending,             \* the caller has a frame it has not yet evaluated
    timing,              \* voxblox::timing::Timing's cumulative statistics
    frames,              \* frames produced by the upstream pipeline so far
    points_seen,         \* points produced by the upstream pipeline so far
    matrix,              \* arguments of the last call of the metric functions
    metrics,             \* results of the last call of the metric functions
    gt_available         \* time stamps the ground-truth handler had labels for

vars == <<clock, fs, constructions, config_, output_directory_,
          evaluated_levels_, ranges_, gt_frame_counter_, cloud_info,
          pending, timing, frames, points_seen, matrix, metrics,
          gt_available>>

evaluator == <<config_, output_directory_, evaluated_levels_, ranges_,
               gt_frame_counter_>>

---------------------------------------------------------------------------
\* Bounds of the model.

MaxFrames == 2          \* frames produced in a run
MaxTotalPoints == 2     \* points of all the frames of a run together
MaxLevelPoints == 2     \* points of the frame in a single-frame run
MaxCount == 4           \* largest counter handed to the metric functions
MaxConstructions == 2   \* Evaluator objects constructed one after another
MaxClock == 2           \* last tick of the wall clock
TicksPerSecond == 2     \* clock ticks inside one second of the time stamp

\* Configured ranges: min_range = 1 and max_range = 2 pass checkParams,
\* max_range = 1 does not.  Distance 0 is below the window, 1 and 2 are its
\* two ends, 3 is above it.
Distances == {0, 1, 2, 3}
MinRanges == {1}
MaxRanges == {1, 2}

---------------------------------------------------------------------------
\* Generic helpers.

RECURSIVE GCD(_, _)
GCD(a, b) == IF b = 0 THEN a ELSE GCD(b, a % b)

\* The float n/d, d > 0, as a fraction in lowest terms.
Fraction(n, d) == <<n \div GCD(n, d), d \div GCD(n, d)>>

\* operator<< on an integer and on a float.
IntText(n) == ToString(n)
FloatText(f) == ToString(f[1]) \o "/" \o ToString(f[2])

\* The texts of the numbers of s.
RECURSIVE IntTexts(_)
IntTexts(s) ==
    IF s = <<>> THEN <<>> ELSE <<IntText(Head(s))>> \o IntTexts(Tail(s))

\* Addition of two uint counters.  The counters of one frame sum to at most
\* the number of its points, so the 32-bit wrap-around is never reached.
UintAdd(a, b) == a + b

\* The tokens of s, each streamed as  << "," << token.
RECURSIVE CommaBefore(_)
CommaBefore(s) ==
    IF s = <<>> THEN <<>> ELSE <<",", Head(s)>> \o CommaBefore(Tail(s))

---------------------------------------------------------------------------
\* File names and the file system.

ranges_file_name_ == "ranges"
scores_file_name_ == "scores"
timings_file_name_ == "timings"

NoFile == [exists |-> FALSE, lines |-> <<>>]
EmptyDir == [scores |-> NoFile, ranges |-> NoFile, timings |-> NoFile]

\* std::filesystem::exists
Exists(fsys, path) == path \in DOMAIN fsys

\* std::filesystem::create_directories: the path and its missing ancestors.
Prefixes(path) == {SubSeq(path, 1, n) : n \in 1..Len(path)}

CreateDirectories(fsys, path) ==
    [d \in DOMAIN fsys \cup Prefixes(path) |->
        IF d \in DOMAIN fsys THEN fsys[d] ELSE EmptyDir]

\* ofstream opened with std::ios::trunc, written, closed.
WriteTrunc(fsys, dir, name, lines) ==
    [fsys EXCEPT ![dir] =
        [@ EXCEPT ![name] = [exists |-> TRUE, lines |-> lines]]]

\* Faulty variant: the scores file is opened with std::ios::trunc for the row too.
WriteAppTruncating(fsys, dir, name, lines) ==
    [fsys EXCEPT ![dir] =
        [@ EXCEPT ![name] = [exists |-> TRUE, lines |-> lines]]]

\* ofstream opened with std::ios::app, written, closed.
WriteApp(fsys, dir, name, lines) ==
    [fsys EXCEPT ![dir] =
        [@ EXCEPT ![name] = [exists |-> TRUE, lines |-> @.lines \o lines]]]

---------------------------------------------------------------------------
\* Configuration.

OutputDirectory == <<"out">>

RawConfigs ==
    [output_directory : {OutputDirectory},
     min_range : MinRanges, max_range : MaxRanges,
     evaluate_point_level : BOOLEAN, evaluate_cluster_level : BOOLEAN,
     evaluate_object_level : BOOLEAN, evaluate_ranges : BOOLEAN]

checkParams(cfg) ==
    /\ cfg.output_directory # <<>>
    /\ cfg.min_range >= 0
    /\ cfg.max_range > cfg.min_range

NoConfig ==
    [output_directory |-> <<>>, min_range |-> 0, max_range |-> 0,
     evaluate_point_level |-> FALSE, evaluate_cluster_level |-> FALSE,
     evaluate_object_level |-> FALSE, evaluate_ranges |-> FALSE]

---------------------------------------------------------------------------
\* Frames.

\* The points a frame may hold when it reaches the Evaluator: not yet
\* labelled; ready_for_evaluation is whatever the caller left in it.
PointInfos ==
    [distance_to_sensor : Distances,
     ready_for_evaluation : BOOLEAN,
     ground_truth_dynamic : {FALSE},
     ever_free_level_dynamic : BOOLEAN,
     cluster_level_dynamic : BOOLEAN,
     object_level_dynamic : BOOLEAN]

Clouds(n, domain) == UNION {[1..k -> domain] : k \in 0..n}

NoCloud == [timestamp |-> 0, points |-> <<>>]

---------------------------------------------------------------------------
\* Metrics.

\* Faulty variant: an empty denominator yields 0 instead of 1.
computePrecisionZero(tp, fp) ==
    IF UintAdd(tp, fp) = 0 THEN <<0, 1>>
    ELSE Fraction(tp, UintAdd(tp, fp))

computePrecision(tp, fp) ==
    IF UintAdd(tp, fp) = 0 THEN <<1, 1>>
    ELSE Fraction(tp, UintAdd(tp, fp))

computeRecall(tp, fn) ==
    IF UintAdd(tp, fn) = 0 THEN <<1, 1>>
    ELSE Fraction(tp, UintAdd(tp, fn))

computeIntersectionOverUnion(tp, fp, fn) ==
    IF UintAdd(UintAdd(tp, fp), fn) = 0 THEN <<1, 1>>
    ELSE Fraction(tp, UintAdd(UintAdd(tp, fp), fn))

---------------------------------------------------------------------------
\* Range filter.

InRange(point, cfg) ==
    /\ point.distance_to_sensor >= cfg.min_range
    /\ point.distance_to_sensor <= cfg.max_range

\* The points after the call, and the returned number_of_points.
filterEvaluatedPoints(points, cfg) ==
    [points |->
        [i \in DOMAIN points |->
            IF InRange(points[i], cfg)
            THEN [points[i] EXCEPT !.ready_for_evaluation = TRUE]
            ELSE points[i]],
     number_of_points |->
        Cardinality({i \in DOMAIN points : InRange(points[i], cfg)})]

---------------------------------------------------------------------------
\* Level evaluator.

\* Faulty variant: the comparison for the point level misspells its name.
KnownLevelsMisspelt == {"points", "cluster", "object"}

KnownLevels == {"point", "cluster", "object"}

\* Faulty variant: the object level reads the cluster-level label.
check_levelCopied(level, point) ==
    CASE level = "point" -> point.ever_free_level_dynamic
      [] level = "cluster" -> point.cluster_level_dynamic
      [] level = "object" -> point.cluster_level_dynamic

check_level(level, point) ==
    CASE level = "point" -> point.ever_free_level_dynamic
      [] level = "cluster" -> point.cluster_level_dynamic
      [] level = "object" -> point.object_level_dynamic

\* The loop over the points: the counters after points i..Len(points).
RECURSIVE CountFrom(_, _, _, _)
CountFrom(points, level, i, c) ==
    IF i > Len(points) THEN c
    ELSE IF ~points[i].ready_for_evaluation
         THEN CountFrom(points, level, i + 1, c)
    ELSE LET is_dynamic == check_level(level, points[i])
             gt == points[i].ground_truth_dynamic
         IN  CountFrom(points, level, i + 1,
                IF is_dynamic /\ gt THEN [c EXCEPT !.tp = @ + 1]
                ELSE IF is_dynamic /\ ~gt THEN [c EXCEPT !.fp = @ + 1]
                ELSE IF ~is_dynamic /\ ~gt THEN [c EXCEPT !.tn = @ + 1]
                ELSE [c EXCEPT !.fn = @ + 1])

ZeroCounts == [tp |-> 0, fp |-> 0, tn |-> 0, fn |-> 0]

\* The tokens the call streams into the scores file.
evaluateCloudAtLevel(points, level) ==
    IF level \notin KnownLevels THEN <<>>
    ELSE LET c == CountFrom(points, level, 1, ZeroCounts)
         IN  CommaBefore(
                <<FloatText(computeIntersectionOverUnion(c.tp, c.fp, c.fn)),
                  FloatText(computePrecision(c.tp, c.fp)),
                  FloatText(computeRecall(c.tp, c.fn)),
                  IntText(c.tp), IntText(c.tn), IntText(c.fp),
                  IntText(c.fn)>>)

RECURSIVE EvaluateLevels(_, _)
EvaluateLevels(points, levels) ==
    IF levels = <<>> THEN <<>>
    ELSE evaluateCloudAtLevel(points, Head(levels))
            \o EvaluateLevels(points, Tail(levels))

---------------------------------------------------------------------------
\* Range accumulator.

\* Faulty variant: the buckets are keyed by the point-level label.
RECURSIVE AddRangesPointLevel(_, _, _)
AddRangesPointLevel(points, i, r) ==
    IF i > Len(points) THEN r
    ELSE IF ~points[i].ready_for_evaluation
         THEN AddRangesPointLevel(points, i + 1, r)
    ELSE LET is_dynamic == points[i].ever_free_level_dynamic
             gt == points[i].ground_truth_dynamic
             d == points[i].distance_to_sensor
         IN  AddRangesPointLevel(points, i + 1,
                IF is_dynamic /\ gt THEN [r EXCEPT ![1] = Append(@, d)]
                ELSE IF is_dynamic /\ ~gt THEN [r EXCEPT ![2] = Append(@, d)]
                ELSE IF ~is_dynamic /\ ~gt THEN [r EXCEPT ![3] = Append(@, d)]
                ELSE [r EXCEPT ![4] = Append(@, d)])

\* The loop that adds the new data: ranges_ after points i..Len(points).
RECURSIVE AddRanges(_, _, _)
AddRanges(points, i, r) ==
    IF i > Len(points) THEN r
    ELSE IF ~points[i].ready_for_evaluation THEN AddRanges(points, i + 1, r)
    ELSE LET is_dynamic == points[i].cluster_level_dynamic
             gt == points[i].ground_truth_dynamic
             d == points[i].distance_to_sensor
         IN  AddRanges(points, i + 1,
                IF is_dynamic /\ gt THEN [r EXCEPT ![1] = Append(@, d)]
                ELSE IF is_dynamic /\ ~gt THEN [r EXCEPT ![2] = Append(@, d)]
                ELSE IF ~is_dynamic /\ ~gt THEN [r EXCEPT ![3] = Append(@, d)]
                ELSE [r EXCEPT ![4] = Append(@, d)])

\* The text written to the ranges file from the collected data r.
RangesText(r) ==
    << <<"TP">> \o CommaBefore(IntTexts(r[1])),
       <<"FP">> \o CommaBefore(IntTexts(r[2])),
       <<"TN">> \o CommaBefore(IntTexts(r[2])),
       <<"FN">> \o CommaBefore(IntTexts(r[2])) >>

\* ranges_ and the file system after the call.
evaluateRanges(points, r, fsys, dir) ==
    LET r2 == AddRanges(points, 1, r)
    IN  [ranges |-> r2,
         fs |-> WriteTrunc(fsys, dir, ranges_file_name_, RangesText(r2))]

---------------------------------------------------------------------------
\* Result writer.

writeTimingsToFile(fsys, dir, report) ==
    WriteTrunc(fsys, dir, timings_file_name_, <<<<IntText(report)>>>>)

\* The cloud, ranges_ and the file system after the call.
writeScoresToFile(cloud, cfg, levels, r, fsys, dir) ==
    LET f == filterEvaluatedPoints(cloud.points, cfg)
        row == <<IntText(cloud.timestamp)>>
                 \o EvaluateLevels(f.points, levels)
                 \o <<",", IntText(f.number_of_points), ",",
                      IntText(Len(cloud.points))>>
        fs1 == WriteApp(fsys, dir, scores_file_name_, <<row>>)
        er == evaluateRanges(f.points, r, fs1, dir)
    IN  [cloud |-> [cloud EXCEPT !.points = f.points],
         ranges |-> IF cfg.evaluate_ranges THEN er.ranges ELSE r,
         fs |-> IF cfg.evaluate_ranges THEN er.fs ELSE fs1]

---------------------------------------------------------------------------
\* Setup.

\* std::put_time of std::localtime: the text of the time stamp, which has
\* a resolution of one second.
Timestamp(t) == ToString(t \div TicksPerSecond)

LevelsOf(cfg) ==
    (IF cfg.evaluate_point_level THEN <<"point">> ELSE <<>>)
    \o (IF cfg.evaluate_cluster_level THEN <<"cluster">> ELSE <<>>)
    \o (IF cfg.evaluate_object_level THEN <<"object">> ELSE <<>>)

RECURSIVE HeaderColumns(_)
HeaderColumns(levels) ==
    IF levels = <<>> THEN <<>>
    ELSE LET level == Head(levels)
         IN  <<level \o "_IoU", ",", level \o "_Precision", ",",
               level \o "_Recall", ",", level \o "_TP", ",",
               level \o "_TN", ",", level \o "_FP", ",",
               level \o "_FN", ",">> \o HeaderColumns(Tail(levels))

HeaderText(levels) ==
    <<"timestamp", ",">> \o HeaderColumns(levels)
        \o <<"EvaluatedPoints", ",", "TotalPoints">>

\* The members and the file system after setupFiles.
setupFiles(cfg, fsys, t) ==
    LET dir == IF Exists(fsys, cfg.output_directory)
               THEN Append(cfg.output_directory, Timestamp(t))
               ELSE cfg.output_directory
        fs1 == CreateDirectories(fsys, dir)
        levels == LevelsOf(cfg)
    IN  [output_directory |-> dir,
         evaluated_levels |-> levels,
         fs |-> WriteTrunc(fs1, dir, scores_file_name_,
                           <<HeaderText(levels)>>),
         ranges |-> IF cfg.evaluate_ranges
                    THEN <<<<>>, <<>>, <<>>, <<>>>> ELSE <<>>]

---------------------------------------------------------------------------
\* Collaborators.

\* GroundTruthHandler::labelCloudInfoIfAvailable: labels the points in place
\* when ground truth is available for the frame, and mutates nothing
\* otherwise.  Its return value is `available'.
labelCloudInfoIfAvailable(cloud, available, labels) ==
    IF available
    THEN [cloud EXCEPT !.points =
            [i \in DOMAIN cloud.points |->
                [cloud.points[i] EXCEPT !.ground_truth_dynamic = labels[i]]]]
    ELSE cloud

---------------------------------------------------------------------------
\* Orchestration.

\* Faulty variant: the scores are written whatever the ground-truth handler
\* answers.
evaluateFrameEffectUnconditional(cloud, available, labels, self, fsys, report) ==
    LET fs1 == writeTimingsToFile(fsys, self.dir, report)
        labeled == labelCloudInfoIfAvailable(cloud, available, labels)
        w == writeScoresToFile(labeled, self.cfg, self.levels, self.ranges,
                               fs1, self.dir)
    IN  [cloud |-> w.cloud, ranges |-> w.ranges, fs |-> w.fs,
         counter |-> self.counter + 1]

\* The cloud, ranges_, gt_frame_counter_ and the file system after
\* evaluateFrame(cloud), the ground-truth handler answering `available';
\* `self' holds the members of the Evaluator before the call.
evaluateFrameEffect(cloud, available, labels, self, fsys, report) ==
    LET fs1 == writeTimingsToFile(fsys, self.dir, report)
        labeled == labelCloudInfoIfAvailable(cloud, available, labels)
        w == writeScoresToFile(labeled, self.cfg, self.levels, self.ranges,
                               fs1, self.dir)
    IN  IF available
        THEN [cloud |-> w.cloud, ranges |-> w.ranges, fs |-> w.fs,
              counter |-> self.counter + 1]
        ELSE [cloud |-> labeled, ranges |-> self.ranges, fs |-> fs1,
              counter |-> self.counter]

---------------------------------------------------------------------------
\* Actions.

NoMatrix == [tp |-> 0, fp |-> 0, fn |-> 0]
NoMetrics ==
    [computed |-> FALSE, precision |-> <<0, 1>>, recall |-> <<0, 1>>,
     iou |-> <<0, 1>>]

\* The wall clock advances.
Tick ==
    /\ clock < MaxClock
    /\ clock' = clock + 1
    /\ UNCHANGED <<fs, constructions, evaluator, cloud_info, pending,
                   timing, frames, points_seen, matrix, metrics,
                   gt_available>>

\* Evaluator::Evaluator(config): a new Evaluator replaces the previous one.
Construct(cfg) ==
    /\ constructions < MaxConstructions
    /\ checkParams(cfg)
    /\ LET s == setupFiles(cfg, fs, clock)
       IN  /\ config_' = cfg
           /\ output_directory_' = s.output_directory
           /\ evaluated_levels_' = s.evaluated_levels
           /\ ranges_' = s.ranges
           /\ fs' = s.fs
    /\ gt_frame_counter_' = 0
    /\ gt_available' = <<>>
    /\ constructions' = constructions + 1
    /\ UNCHANGED <<clock, cloud_info, pending, timing, frames, points_seen,
                   matrix, metrics>>

\* The upstream pipeline produces the next frame and updates the timers.
RunPipeline(points) ==
    /\ ~pending
    /\ frames < MaxFrames
    /\ frames' = frames + 1
    /\ points_seen' = points_seen + Len(points)
    /\ cloud_info' = [timestamp |-> frames + 1, points |-> points]
    /\ timing' = timing + 1
    /\ pending' = TRUE
    /\ UNCHANGED <<clock, fs, constructions, evaluator, matrix, metrics,
                   gt_available>>

\* Evaluator::evaluateFrame(cloud_info); `available' and `labels' are the
\* ground-truth handler's answer for the frame.
evaluateFrame(available, labels) ==
    /\ constructions > 0
    /\ pending
    /\ pending' = FALSE
    /\ \E e \in {evaluateFrameEffect(cloud_info, available, labels,
                [cfg |-> config_, levels |-> evaluated_levels_,
                 ranges |-> ranges_, counter |-> gt_frame_counter_,
                 dir |-> output_directory_], fs, timing)} :
           /\ cloud_info' = e.cloud
           /\ ranges_' = e.ranges
           /\ fs' = e.fs
           /\ gt_frame_counter_' = e.counter
    /\ gt_available' = IF available
                       THEN Append(gt_available, cloud_info.timestamp)
                       ELSE gt_available
    /\ UNCHANGED <<clock, constructions, config_, output_directory_,
                   evaluated_levels_, timing, frames, points_seen, matrix,
                   metrics>>

\* computePrecision, computeRecall and computeIntersectionOverUnion are
\* called on the counters in matrix.
ComputeMetrics ==
    /\ ~metrics.computed
    /\ metrics' = [computed |-> TRUE,
                   precision |-> computePrecision(matrix.tp, matrix.fp),
                   recall |-> computeRecall(matrix.tp, matrix.fn),
                   iou |-> computeIntersectionOverUnion(
                              matrix.tp, matrix.fp, matrix.fn)]
    /\ UNCHANGED <<clock, fs, constructions, evaluator, cloud_info, pending,
                   timing, frames, points_seen, matrix, gt_available>>

\* The ground-truth handler's possible answers for the pending frame.
Evaluate ==
    /\ pending
    /\ \E available \in BOOLEAN :
          \E labels \in [DOMAIN cloud_info.points -> BOOLEAN] :
              /\ available \/ \A i \in DOMAIN labels : ~labels[i]
              /\ evaluateFrame(available, labels)

---------------------------------------------------------------------------
\* Initial states.

EmptyFs == [d \in {} |-> EmptyDir]

ValidConfigs == {cfg \in RawConfigs : checkParams(cfg)}

\* One Evaluator constructed with cfg on a file system without the output
\* directory; no frame produced yet.
Constructed(cfg) ==
    /\ clock = 0
    /\ constructions = 1
    /\ LET s == setupFiles(cfg, EmptyFs, 0)
       IN  /\ config_ = cfg
           /\ output_directory_ = s.output_directory
           /\ evaluated_levels_ = s.evaluated_levels
           /\ ranges_ = s.ranges
           /\ fs = s.fs
    /\ gt_frame_counter_ = 0
    /\ gt_available = <<>>
    /\ cloud_info = NoCloud
    /\ pending = FALSE
    /\ timing = 0
    /\ frames = 0
    /\ points_seen = 0
    /\ metrics = NoMetrics

---------------------------------------------------------------------------
\* Spec: a run of one Evaluator, any valid configuration, over several
\* frames.

\* The points of a run's frames: inside the window or beyond it, the flag
\* left set by an earlier pass or not, dynamic or static at cluster level.
RunPoints ==
    {p \in PointInfos :
        /\ <<p.distance_to_sensor, p.ready_for_evaluation,
              p.cluster_level_dynamic>>
              \in {<<2, FALSE, FALSE>>, <<2, FALSE, TRUE>>,
                   <<3, FALSE, FALSE>>, <<3, TRUE, TRUE>>}
        /\ ~p.ever_free_level_dynamic
        /\ p.object_level_dynamic}

Init ==
    /\ \E cfg \in ValidConfigs : Constructed(cfg)
    /\ matrix = NoMatrix

Produce ==
    /\ ~pending
    /\ frames < MaxFrames
    /\ \E points \in Clouds(MaxTotalPoints - points_seen, RunPoints) :
          RunPipeline(points)

Next == Produce \/ Evaluate

Spec == Init /\ [][Next]_vars

---------------------------------------------------------------------------
\* SpecFrame: one frame evaluated by an Evaluator with every level and the
\* range evaluation enabled.

AllLevels ==
    [output_directory |-> OutputDirectory, min_range |-> 1, max_range |-> 2,
     evaluate_point_level |-> TRUE, evaluate_cluster_level |-> TRUE,
     evaluate_object_level |-> TRUE, evaluate_ranges |-> TRUE]

FramePoints ==
    {p \in PointInfos :
        <<p.distance_to_sensor, p.ready_for_evaluation>>
            \in {<<0, FALSE>>, <<1, FALSE>>, <<2, FALSE>>, <<3, TRUE>>}}

\* Three points inside the window, differing in the cluster-level label.
ScenarioPoints ==
    {p \in PointInfos :
        /\ p.distance_to_sensor = 1
        /\ ~p.ready_for_evaluation
        /\ ~p.ever_free_level_dynamic
        /\ ~p.object_level_dynamic}

InitFrame ==
    /\ Constructed(AllLevels)
    /\ matrix = NoMatrix

ProduceFrame ==
    /\ frames = 0
    /\ \E points \in Clouds(MaxLevelPoints, FramePoints)
                      \cup [1..3 -> ScenarioPoints] :
          RunPipeline(points)

NextFrame == ProduceFrame \/ Evaluate

SpecFrame == InitFrame /\ [][NextFrame]_vars

---------------------------------------------------------------------------
\* SpecMetrics: the metric functions on every confusion matrix up to
\* MaxCount.

InitMetrics ==
    /\ Constructed(AllLevels)
    /\ matrix \in [tp : 0..MaxCount, fp : 0..MaxCount, fn : 0..MaxCount]

NextMetrics == ComputeMetrics

SpecMetrics == InitMetrics /\ [][NextMetrics]_vars

---------------------------------------------------------------------------
\* SpecSetup: Evaluators constructed one after another on the same
\* output_directory, which may exist beforehand, while the clock advances.

InitSetup ==
    /\ clock = 0
    /\ constructions = 0
    /\ fs \in {EmptyFs, [d \in {OutputDirectory} |-> EmptyDir]}
    /\ config_ = NoConfig
    /\ output_directory_ = <<>>
    /\ evaluated_levels_ = <<>>
    /\ ranges_ = <<>>
    /\ gt_frame_counter_ = 0
    /\ gt_available = <<>>
    /\ cloud_info = NoCloud
    /\ pending = FALSE
    /\ timing = 0
    /\ frames = 0
    /\ points_seen = 0
    /\ matrix = NoMatrix
    /\ metrics = NoMetrics

ConstructAny == \E cfg \in RawConfigs : Construct(cfg)

ProduceEmpty == RunPipeline(<<>>)

NextSetup == Tick \/ ConstructAny \/ ProduceEmpty \/ Evaluate

SpecSetup == InitSetup /\ [][NextSetup]_vars

---------------------------------------------------------------------------
\* Reading the files back.

\* The comma-separated fields of a line of text: the token runs between the
\* separators.
RECURSIVE SplitFrom(_, _, _)
SplitFrom(line, i, cur) ==
    IF i > Len(line) THEN <<cur>>
    ELSE IF line[i] = "," THEN <<cur>> \o SplitFrom(line, i + 1, <<>>)
    ELSE SplitFrom(line, i + 1, Append(cur, line[i]))

Fields(line) == SplitFrom(line, 1, <<>>)

\* The scores table of the Evaluator's output directory, and its rows below
\* the header line.
ScoresFile == fs[output_directory_].scores.lines
DataRows == Tail(ScoresFile)

\* The number a field of decimal text states (no frame of the model has
\* ten points, no run ten frames).
Number(field) == CHOOSE n \in 0..9 : field = <<ToString(n)>>

\* The frame in cloud_info was labelled and evaluated: the last data row is
\* its row.
RowCurrent ==
    /\ ~pending
    /\ gt_available # <<>>
    /\ gt_available[Len(gt_available)] = cloud_info.timestamp

LastRow == Fields(ScoresFile[Len(ScoresFile)])

\* The levels the configuration enables, in the order point, cluster, object.
EnabledLevels ==
    SelectSeq(<<"point", "cluster", "object">>,
              LAMBDA l : \/ l = "point" /\ config_.evaluate_point_level
                         \/ l = "cluster" /\ config_.evaluate_cluster_level
                         \/ l = "object" /\ config_.evaluate_object_level)

\* The prediction a point carries at a level.
PredictionAt(l, p) ==
    IF l = "point" THEN p.ever_free_level_dynamic
    ELSE IF l = "cluster" THEN p.cluster_level_dynamic
    ELSE p.object_level_dynamic

\* The number of points of the frame marked eligible whose prediction at
\* level l is pred and whose ground-truth label is gt.
Outcomes(points, l, pred, gt) ==
    Cardinality({i \in DOMAIN points :
                    /\ points[i].ready_for_evaluation
                    /\ PredictionAt(l, points[i]) = pred
                    /\ points[i].ground_truth_dynamic = gt})

Eligible(points) ==
    Cardinality({i \in DOMAIN points : points[i].ready_for_evaluation})

\* Fields 4..7 of the j-th level group of a row: TP, TN, FP, FN.
GroupCounts(row, j) == SubSeq(row, 7 * (j - 1) + 5, 7 * (j - 1) + 8)

---------------------------------------------------------------------------
\* C1.  After the range filter has run on a frame, every point's
\* ready_for_evaluation flag is true exactly when
\* min_range <= distance_to_sensor <= max_range, whatever the flag was
\* before the call; so no level's confusion matrix counts more points than
\* the window holds.
C1_FlagIffInWindow ==
    RowCurrent =>
        /\ \A i \in DOMAIN cloud_info.points :
              cloud_info.points[i].ready_for_evaluation
                 <=> /\ config_.min_range
                          <= cloud_info.points[i].distance_to_sensor
                     /\ cloud_info.points[i].distance_to_sensor
                          <= config_.max_range
        /\ \A j \in 1..Len(evaluated_levels_) :
              LET c == GroupCounts(LastRow, j)
              IN  Number(c[1]) + Number(c[2]) + Number(c[3]) + Number(c[4])
                    <= Cardinality({i \in DOMAIN cloud_info.points :
                          /\ config_.min_range
                               <= cloud_info.points[i].distance_to_sensor
                          /\ cloud_info.points[i].distance_to_sensor
                               <= config_.max_range})

\* C2.  In every data row of the scores table, each level's
\* TP + FP + TN + FN equals the row's EvaluatedPoints column, the count the
\* range filter returned for the frame.
C2_CountsSumToEvaluatedPoints ==
    \A r \in 1..Len(DataRows) :
        LET row == Fields(DataRows[r])
        IN  \A j \in 1..Len(evaluated_levels_) :
              LET c == GroupCounts(row, j)
              IN  Number(c[1]) + Number(c[2]) + Number(c[3]) + Number(c[4])
                    = Number(row[Len(row) - 1])

\* C3.  Below its single header line the scores table holds exactly one row
\* per frame the ground-truth handler labelled, in the order the frames were
\* processed; a frame without ground truth adds none.
C3_OneRowPerLabeledFrame ==
    /\ fs[output_directory_].scores.exists
    /\ Len(ScoresFile) = 1 + Len(gt_available)
    /\ Fields(ScoresFile[1])[1] = <<"timestamp">>
    /\ \A r \in 1..Len(gt_available) :
          Number(Fields(DataRows[r])[1]) = gt_available[r]

\* Two labelled frames have been evaluated one after the other.
C3_Witness ==
    /\ gt_available = <<1, 2>>
    /\ ~pending
    /\ Len(ScoresFile) = 3

\* C4.  The ranges file holds four lines labelled TP, FP, TN, FN, each
\* listing, in observation order, the distances collected in that line's
\* own bucket of ranges_.
C4_RangesFileListsOwnBuckets ==
    (config_.evaluate_ranges /\ fs[output_directory_].ranges.exists) =>
        LET text == fs[output_directory_].ranges.lines
            label == <<"TP", "FP", "TN", "FN">>
        IN  /\ Len(text) = 4
            /\ \A k \in 1..4 :
                  Fields(text[k])
                    = <<<<label[k]>>>>
                        \o [i \in 1..Len(ranges_[k]) |->
                              <<ToString(ranges_[k][i])>>]

\* An evaluateFrame call for which the ground-truth handler had no labels.
NoGroundTruthStep ==
    /\ pending
    /\ ~pending'
    /\ gt_available' = gt_available

\* C5.  evaluateFrame on a frame without ground truth rewrites the timing
\* dump with the current statistics and leaves the scores table, the ranges
\* file, the range buckets, gt_frame_counter_ and the frame (its eligibility
\* flags included) as they were.
C5_NoGroundTruthOnlyTimings ==
    [][NoGroundTruthStep =>
          /\ fs'[output_directory_].timings
                = [exists |-> TRUE, lines |-> <<<<ToString(timing)>>>>]
          /\ fs'[output_directory_].scores = fs[output_directory_].scores
          /\ fs'[output_directory_].ranges = fs[output_directory_].ranges
          /\ ranges_' = ranges_
          /\ gt_frame_counter_' = gt_frame_counter_
          /\ cloud_info' = cloud_info]_vars

\* A frame without ground truth has been evaluated after a labelled one.
C5_Witness ==
    /\ ~pending
    /\ frames = 2
    /\ gt_available = <<1>>
    /\ cloud_info.timestamp = 2
    /\ cloud_info.points # <<>>
    /\ fs[output_directory_].timings.lines = <<<<ToString(timing)>>>>
    /\ gt_frame_counter_ = 1

\* C6.  A construction never touches a directory that existed before it:
\* when the configured output directory exists, the Evaluator uses a
\* directory that did not exist, and the files of every existing directory
\* stay as they were.
C6_ConstructionLeavesExistingDirectories ==
    [][constructions' = constructions + 1 =>
          /\ Exists(fs, config_'.output_directory)
                => ~Exists(fs, output_directory_')
          /\ \A d \in DOMAIN fs : fs'[d] = fs[d]]_vars

\* The float f is n/d.
IsQuotient(f, n, d) == f[2] > 0 /\ f[1] * d = n * f[2]

\* The float f lies in [0, 1].
InUnitInterval(f) == f[2] > 0 /\ f[1] <= f[2]

\* C7.  precision = TP/(TP+FP), recall = TP/(TP+FN) and
\* IoU = TP/(TP+FP+FN) when the denominator is not zero, each is exactly 1
\* when its denominator is zero, and all three lie in [0, 1].
C7_MetricsOfMatrix ==
    metrics.computed =>
        LET tp == matrix.tp
            fp == matrix.fp
            fn == matrix.fn
        IN  /\ IF tp + fp = 0 THEN metrics.precision = <<1, 1>>
               ELSE IsQuotient(metrics.precision, tp, tp + fp)
            /\ IF tp + fn = 0 THEN metrics.recall = <<1, 1>>
               ELSE IsQuotient(metrics.recall, tp, tp + fn)
            /\ IF tp + fp + fn = 0 THEN metrics.iou = <<1, 1>>
               ELSE IsQuotient(metrics.iou, tp, tp + fp + fn)
            /\ InUnitInterval(metrics.precision)
            /\ InUnitInterval(metrics.recall)
            /\ InUnitInterval(metrics.iou)

\* The metrics of a matrix without positive predictions and with two false
\* negatives: precision by the empty-denominator rule, recall and IoU zero.
C7_Witness ==
    /\ metrics.computed
    /\ matrix = [tp |-> 0, fp |-> 0, fn |-> 2]
    /\ metrics.precision = <<1, 1>>
    /\ metrics.recall = <<0, 1>>
    /\ metrics.iou = <<0, 1>>

\* The points of the frame are three, all marked eligible, with ground truth
\* [dynamic, dynamic, static] and cluster-level prediction
\* [dynamic, static, static].
Scenario ==
    /\ Len(cloud_info.points) = 3
    /\ \A i \in 1..3 : cloud_info.points[i].ready_for_evaluation
    /\ [i \in 1..3 |-> cloud_info.points[i].ground_truth_dynamic]
          = <<TRUE, TRUE, FALSE>>
    /\ [i \in 1..3 |-> cloud_info.points[i].cluster_level_dynamic]
          = <<TRUE, FALSE, FALSE>>

Observed(points, pred, gt) ==
    LET sel == SelectSeq(points,
                  LAMBDA p : /\ p.ready_for_evaluation
                             /\ p.cluster_level_dynamic = pred
                             /\ p.ground_truth_dynamic = gt)
    IN  [i \in 1..Len(sel) |-> sel[i].distance_to_sensor]

\* What a step appends to the four buckets: the observations of the frame
\* when the step evaluated a labelled frame, nothing otherwise.
Appended ==
    IF gt_available' # gt_available
    THEN <<Observed(cloud_info'.points, TRUE, TRUE),
           Observed(cloud_info'.points, TRUE, FALSE),
           Observed(cloud_info'.points, FALSE, FALSE),
           Observed(cloud_info'.points, FALSE, TRUE)>>
    ELSE <<<<>>, <<>>, <<>>, <<>>>>

RECURSIVE ExpectedColumns(_)
ExpectedColumns(levels) ==
    IF levels = <<>> THEN <<>>
    ELSE LET l == Head(levels)
         IN  <<<<l \o "_IoU">>, <<l \o "_Precision">>, <<l \o "_Recall">>,
               <<l \o "_TP">>, <<l \o "_TN">>, <<l \o "_FP">>,
               <<l \o "_FN">>>> \o ExpectedColumns(Tail(levels))

\* C10.  Every data row of the scores table has as many comma-separated
\* fields as the header, 1 + 7 x (enabled levels) + 2, with the level groups
\* in the header's order point, cluster, object; only those three level
\* names reach the level evaluator.
C10_RowsMatchHeader ==
    \A header \in {Fields(ScoresFile[1])} :
        /\ \A j \in 1..Len(evaluated_levels_) :
              evaluated_levels_[j] \in {"point", "cluster", "object"}
        /\ header = <<<<"timestamp">>>> \o ExpectedColumns(EnabledLevels)
                      \o <<<<"EvaluatedPoints">>, <<"TotalPoints">>>>
        /\ Len(header) = 1 + 7 * Len(EnabledLevels) + 2
        /\ \A r \in 1..Len(DataRows) :
              Len(Fields(DataRows[r])) = Len(header)
        /\ RowCurrent =>
              \A row \in {LastRow} :
                 \A j \in 1..Len(EnabledLevels) :
                    LET c == GroupCounts(row, j)
                        l == EnabledLevels[j]
                        p == cloud_info.points
                    IN  /\ c[1] = <<ToString(Outcomes(p, l, TRUE, TRUE))>>
                        /\ c[2] = <<ToString(Outcomes(p, l, FALSE, FALSE))>>
                        /\ c[3] = <<ToString(Outcomes(p, l, TRUE, FALSE))>>
                        /\ c[4] = <<ToString(Outcomes(p, l, FALSE, TRUE))>>

\* An Evaluator with the three levels enabled has written the row of a frame
\* with an eligible point.
C10_Witness ==
    /\ Len(EnabledLevels) = 3
    /\ RowCurrent
    /\ Eligible(cloud_info.points) > 0
    /\ Len(LastRow) = 24

===========================================================================
